---- MODULE Spec2Model ----
(***************************************************************************)
(* A model of the test-option engine of tests/framework/src/options.rs:     *)
(* TestOptions::validate, PlayerOptions::can_run and create_renderer,      *)
(* ImageComparison::test and its difference functions, Approximations::    *)
(* compare and TestExpression::evaluate, and of the resizing of            *)
(* GuiController in desktop/src/gui/controller.rs.  Each operation has its *)
(* own specification (SpecValidate, SpecPlayer, SpecTest, SpecDifference,  *)
(* SpecApprox, SpecExpr, SpecGui) whose initial states draw the            *)
(* operation's inputs from bounded sets.                                   *)
(***************************************************************************)
EXTENDS Integers, Sequences, FiniteSets, TLC

\* ------------------------------------------------------------------ bounds
\* Largest number of pixels of an image.
MaxPixels == 2
\* Largest number of entries of an ImageComparison's `checks` list.
MaxChecks == 2
\* Largest number of arguments of any(...) / all(...) / not(...) in an expression.
MaxArgs == 2
\* Largest number of entries of TestOptions.image_comparisons.
MaxComparisons == 3
\* Largest number of window events and calls a GuiController is given.
MaxEvents == 3

\* ----------------------------------------------------------------- helpers
None == [some |-> FALSE]
Some(v) == [some |-> TRUE, v |-> v]
Option(S) == {None} \cup {Some(v) : v \in S}
\* Mutant: an unset limit defaults to 1.
unwrap_or_default_One(o) == IF o.some THEN o.v ELSE 1

unwrap_or_default(o) == IF o.some THEN o.v ELSE 0

max(a, b) == IF a >= b THEN a ELSE b

\* All sequences over S of length at most n.
SeqsUpTo(S, n) == UNION {[1..k -> S] : k \in 0..n}

\* ------------------------------------------------------ TestExpression
\* The host the tests run on: std::env::consts::{OS, ARCH, FAMILY}.
LinuxHost == [os |-> "linux", arch |-> "x86_64", family |-> "unix"]
WindowsHost == [os |-> "windows", arch |-> "aarch64", family |-> "windows"]
Hosts == {LinuxHost, WindowsHost}

\* The text of a TestExpression, as its syntax: an atom `key = "val"` (or the bare
\* identifier `key` when val is NoVal), or a function not/any/all applied to a
\* list of arguments.
NoVal == "<none>"
Atom(k, v) == [node |-> "atom", key |-> k, val |-> v, args |-> <<>>]
Fn(f, as) == [node |-> f, key |-> "", val |-> NoVal, args |-> as]

\* cfg_expr keys that parse to a target predicate rather than to a key/value one.
TargetKeys == {"target_os", "target_arch", "target_family"}

\* cfg_expr::Expression::parse succeeds unless the text is malformed; of the texts
\* modelled, not(...) with other than exactly one argument is malformed.
RECURSIVE ParseOk(_)
ParseOk(t) ==
    CASE t.node = "atom" -> TRUE
      [] t.node = "not" -> Len(t.args) = 1 /\ ParseOk(t.args[1])
      [] OTHER -> \A k \in 1..Len(t.args) : ParseOk(t.args[k])

\* The cfg_expr::Predicate an atom parses to.
ToPredicate(t) ==
    IF t.val = NoVal THEN [kind |-> "Flag", key |-> t.key, val |-> NoVal]
    ELSE IF t.key \in TargetKeys THEN [kind |-> "Target", key |-> t.key, val |-> t.val]
    ELSE [kind |-> "KeyValue", key |-> t.key, val |-> t.val]

\* Mutant: the `_` arm answers false without recording the predicate.
PredicateArm_Silent(pred, host) ==
    IF pred.kind = "KeyValue" /\ pred.key = "os"
      THEN [known |-> TRUE, value |-> pred.val = host.os]
    ELSE IF pred.kind = "KeyValue" /\ pred.key = "arch"
      THEN [known |-> TRUE, value |-> pred.val = host.arch]
    ELSE IF pred.kind = "KeyValue" /\ pred.key = "family"
      THEN [known |-> TRUE, value |-> pred.val = host.family]
    ELSE [known |-> TRUE, value |-> FALSE]

\* The closure handed to cfg_parsed.eval: the arm that matches the predicate.
\* known = FALSE is the `_` arm, which records the predicate in unknown_pred.
PredicateArm(pred, host) ==
    IF pred.kind = "KeyValue" /\ pred.key = "os"
      THEN [known |-> TRUE, value |-> pred.val = host.os]
    ELSE IF pred.kind = "KeyValue" /\ pred.key = "arch"
      THEN [known |-> TRUE, value |-> pred.val = host.arch]
    ELSE IF pred.kind = "KeyValue" /\ pred.key = "family"
      THEN [known |-> TRUE, value |-> pred.val = host.family]
    ELSE [known |-> FALSE, value |-> FALSE]

\* The predicates of a parsed expression, in the order eval visits them (eval walks
\* the postfix form and calls the closure on every predicate, left to right).
RECURSIVE PredicatesOf(_)
RECURSIVE PredicatesOfArgs(_, _)
PredicatesOf(t) ==
    IF t.node = "atom" THEN <<ToPredicate(t)>> ELSE PredicatesOfArgs(t.args, 1)
PredicatesOfArgs(as, k) ==
    IF k > Len(as) THEN <<>> ELSE PredicatesOf(as[k]) \o PredicatesOfArgs(as, k + 1)

\* The value eval combines from the closure's answers.
RECURSIVE EvalExpr(_, _)
EvalExpr(t, host) ==
    CASE t.node = "atom" -> PredicateArm(ToPredicate(t), host).value
      [] t.node = "not" -> ~EvalExpr(t.args[1], host)
      [] t.node = "any" -> \E k \in 1..Len(t.args) : EvalExpr(t.args[k], host)
      [] t.node = "all" -> \A k \in 1..Len(t.args) : EvalExpr(t.args[k], host)

\* unknown_pred after eval: the last predicate that took the `_` arm, if any.
RECURSIVE LastUnknown(_, _, _)
LastUnknown(preds, host, k) ==
    IF k = 0 THEN None
    ELSE IF ~PredicateArm(preds[k], host).known THEN Some(preds[k])
    ELSE LastUnknown(preds, host, k - 1)

OkBool(b) == [kind |-> "Ok", value |-> b, error |-> "", pred |-> None]
ExprErr(e, p) == [kind |-> "Err", value |-> FALSE, error |-> e, pred |-> p]

\* TestExpression::evaluate.
evaluate(text, host) ==
    IF ~ParseOk(text) THEN ExprErr("Cannot parse expression", None)
    ELSE LET unknown_pred == LastUnknown(PredicatesOf(text), host, Len(PredicatesOf(text)))
         IN  IF unknown_pred.some
               THEN ExprErr("Unknown predicate used in expression", unknown_pred)
               ELSE OkBool(EvalExpr(text, host))

\* ---------------------------------------------------------------- images
\* An image::RgbaImage: width, height and the raw buffer, 4 bytes per pixel.
BasePixel == <<0, 0, 0, 255>>
\* Pixels an image is made of: the base pixel, one whose blue channel is 10 away,
\* one whose alpha is 3 away, one with both.
Pixels == {BasePixel, <<0, 0, 10, 255>>, <<0, 0, 0, 252>>, <<0, 0, 10, 252>>}

Dims == {d \in (0..MaxPixels) \X (1..MaxPixels) : d[1] * d[2] <= MaxPixels}

RECURSIVE Flatten(_)
Flatten(ps) == IF ps = <<>> THEN <<>> ELSE Head(ps) \o Flatten(Tail(ps))

ImagesOf(d) ==
    {[width |-> d[1], height |-> d[2], data |-> Flatten(ps)] : ps \in [1..(d[1] * d[2]) -> Pixels]}
Images == UNION {ImagesOf(d) : d \in Dims}
Blank(d) ==
    [width |-> d[1], height |-> d[2], data |-> Flatten([k \in 1..(d[1] * d[2]) |-> BasePixel])]

\* data.chunks_exact(4): the k-th chunk (k from 1).
NumChunks(data) == Len(data) \div 4
Chunk(data, k) == SubSeq(data, 4 * k - 3, 4 * k)

\* Mutant: the subtraction is done on the bytes themselves and wraps.
calc_difference_Wrapping(lhs, rhs) == (lhs - rhs) % 256

\* (lhs as i16 - rhs as i16).unsigned_abs() as u8
calc_difference(lhs, rhs) ==
    LET d == lhs - rhs
        unsigned_abs == IF d < 0 THEN 0 - d ELSE d
    IN  unsigned_abs % 256

\* The zip of the two chunk iterators ends with the shorter one.
ZipLen(a, b) == IF NumChunks(a) <= NumChunks(b) THEN NumChunks(a) ELSE NumChunks(b)

\* ImageComparison::calculate_difference_data: the collected buffer and the final
\* value of *is_alpha_different (which starts false).
calculate_difference_data(actual_image, expected_image) ==
    LET n == ZipLen(expected_image.data, actual_image.data)
        cmp(k) == Chunk(expected_image.data, k)
        dat(k) == Chunk(actual_image.data, k)
    IN  [data |-> Flatten([k \in 1..n |->
                    << calc_difference(cmp(k)[1], dat(k)[1]),
                       calc_difference(cmp(k)[2], dat(k)[2]),
                       calc_difference(cmp(k)[3], dat(k)[3]),
                       calc_difference(cmp(k)[4], dat(k)[4]) >>]),
         is_alpha_different |-> \E k \in 1..n : cmp(k)[4] # dat(k)[4]]

Bit(b) == IF b THEN 1 ELSE 0

\* Mutant: a sample equal to the tolerance counts as an outlier.
RECURSIVE SumOutliers_Ge(_, _, _)
SumOutliers_Ge(difference_data, tolerance, k) ==
    IF k = 0 THEN 0
    ELSE LET colors == Chunk(difference_data, k)
         IN  Bit(colors[1] >= tolerance) + Bit(colors[2] >= tolerance)
               + Bit(colors[3] >= tolerance) + Bit(colors[4] >= tolerance)
               + SumOutliers_Ge(difference_data, tolerance, k - 1)
calculate_outliers_Ge(difference_data, tolerance) ==
    SumOutliers_Ge(difference_data, tolerance, NumChunks(difference_data))

\* Mutant: the alpha channel is left out of the count.
RECURSIVE SumOutliers_Rgb(_, _, _)
SumOutliers_Rgb(difference_data, tolerance, k) ==
    IF k = 0 THEN 0
    ELSE LET colors == Chunk(difference_data, k)
         IN  Bit(colors[1] > tolerance) + Bit(colors[2] > tolerance)
               + Bit(colors[3] > tolerance)
               + SumOutliers_Rgb(difference_data, tolerance, k - 1)
calculate_outliers_Rgb(difference_data, tolerance) ==
    SumOutliers_Rgb(difference_data, tolerance, NumChunks(difference_data))

\* ImageComparison::calculate_outliers
RECURSIVE SumOutliers(_, _, _)
SumOutliers(difference_data, tolerance, k) ==
    IF k = 0 THEN 0
    ELSE LET colors == Chunk(difference_data, k)
         IN  Bit(colors[1] > tolerance) + Bit(colors[2] > tolerance)
               + Bit(colors[3] > tolerance) + Bit(colors[4] > tolerance)
               + SumOutliers(difference_data, tolerance, k - 1)
calculate_outliers(difference_data, tolerance) ==
    SumOutliers(difference_data, tolerance, NumChunks(difference_data))

\* ImageComparison::calculate_max_difference: the Option that .max() yields, which
\* the code unwraps (None, of an empty buffer, panics).
RECURSIVE MaxOfChunks(_, _)
MaxOfChunks(difference_data, k) ==
    LET colors == Chunk(difference_data, k)
        m == max(max(max(colors[1], colors[2]), colors[3]), colors[4])
    IN  IF k = 1 THEN m ELSE max(m, MaxOfChunks(difference_data, k - 1))
\* Mutant: an empty buffer has maximum difference 0.
calculate_max_difference_OrZero(difference_data) ==
    IF NumChunks(difference_data) = 0 THEN Some(0)
    ELSE Some(MaxOfChunks(difference_data, NumChunks(difference_data)))
calculate_max_difference(difference_data) ==
    IF NumChunks(difference_data) = 0 THEN None
    ELSE Some(MaxOfChunks(difference_data, NumChunks(difference_data)))

\* ------------------------------------------------------- ImageComparison
\* The filters a check is given: none, or a TestExpression.
FilterTexts ==
    { Atom("os", "linux"),                   \* true on LinuxHost
      Fn("not", <<Atom("os", "linux")>>),    \* false on LinuxHost
      Atom("foo", "bar"),                    \* an unknown predicate
      Fn("not", <<>>) }                      \* does not parse
Filters == Option(FilterTexts)

\* (tolerance, max_outliers) of the checks of a `checks` list.
CheckLimits == {<<5, 0>>, <<0, 1>>}
ImageComparisonChecks ==
    {[tolerance |-> l[1], max_outliers |-> l[2], filter |-> f] : l \in CheckLimits, f \in Filters}

Triggers == {"LastFrame", "FsCommand", "SpecificIteration1", "SpecificIteration2"}

ImageComparisonOf(t, m, cs, tr) ==
    [tolerance |-> t, max_outliers |-> m, checks |-> cs, trigger |-> tr]

\* Simple mode: no checks list, tolerance and max_outliers set or not.
SimpleComparisons ==
    {ImageComparisonOf(t, m, <<>>, "LastFrame") : t \in Option({5, 15}), m \in Option({0, 1})}
\* A checks list, alone (advanced mode) or together with a simple field.
ListComparisons ==
    {ImageComparisonOf(sf[1], sf[2], cs, "LastFrame") :
        sf \in {<<None, None>>, <<Some(5), None>>, <<None, Some(1)>>},
        cs \in SeqsUpTo(ImageComparisonChecks, MaxChecks) \ {<<>>}}

\* Mutant: a checks list silently wins over the simple fields.
ImageComparison_checks_PreferList(self) ==
    IF self.checks # <<>>
      THEN [kind |-> "Ok", error |-> "", v |-> self.checks]
    ELSE [kind |-> "Ok", error |-> "",
          v |-> << [tolerance |-> unwrap_or_default(self.tolerance),
                    max_outliers |-> unwrap_or_default(self.max_outliers),
                    filter |-> None] >>]

\* ImageComparison::checks
ImageComparison_checks(self) ==
    LET has_simple_check == self.tolerance.some \/ self.max_outliers.some
    IN  IF has_simple_check /\ self.checks # <<>>
          THEN [kind |-> "Err", error |-> "Both simple and advanced checks are defined", v |-> <<>>]
        ELSE IF self.checks # <<>>
          THEN [kind |-> "Ok", error |-> "", v |-> self.checks]
        ELSE [kind |-> "Ok", error |-> "",
              v |-> << [tolerance |-> unwrap_or_default(self.tolerance),
                        max_outliers |-> unwrap_or_default(self.max_outliers),
                        filter |-> None] >>]

\* ------------------------------------------------------------------ state
VARIABLES
    \* ImageComparison::test: its arguments, ...
    self, actual_image, expected_image, known_failure, host,
    \* ... its position, its locals and its return value, ...
    pc, difference_data, is_alpha_different, checks, i, any_check_executed, result,
    \* ... and the calls it made, in order (write_image, calculate_*, evaluate, println).
    events,
    \* TestOptions::validate: the map, the values the iteration has yet to yield,
    \* the local seen_triggers and the return value.
    image_comparisons, to_visit, seen_triggers, validate_result,
    \* TestExpression::evaluate: the expression's text and the return value.
    expression, expr_result,
    \* PlayerOptions: self, the check_renderer argument, the environment (the render
    \* options it supports, whether it can create a renderer), the calls made on the
    \* environment, and the values returned by can_run and create_renderer.
    player_options, check_renderer, environment, env_calls, can_run_result, renderer,
    \* The difference functions on their own: two images of the same dimensions and
    \* a tolerance, the position, and the values returned by
    \* calculate_difference_data (for actual = A, expected = B and the reverse),
    \* calculate_outliers and calculate_max_difference.
    image_a, image_b, pure_tolerance, pure_pc, diff_ab, diff_ba, outlier_count, max_diff,
    \* Approximations::compare: self, the two numbers and the return value.
    approximations, approx_actual, approx_expected, compare_result,
    \* GuiController (desktop/src/gui/controller.rs): self.size, the configuration
    \* the surface was last given, and what happened to the controller, in order
    \* (its construction, the events handled, the calls of resize, the surface lost
    \* in render, and every surface.configure).
    gui_size, surface_config, gui_log

testVars == << self, actual_image, expected_image, known_failure, host,
               pc, difference_data, is_alpha_different, checks, i, any_check_executed,
               result, events >>

validateVars == << image_comparisons, to_visit, seen_triggers, validate_result >>
exprVars == << expression, expr_result >>
playerVars == << player_options, check_renderer, environment, env_calls, can_run_result,
                 renderer >>

differenceVars == << image_a, image_b, pure_tolerance, pure_pc, diff_ab, diff_ba,
                     outlier_count, max_diff >>
approxVars == << approximations, approx_actual, approx_expected, compare_result >>

guiVars == << gui_size, surface_config, gui_log >>

vars == << testVars, validateVars, exprVars, playerVars, differenceVars, approxVars, guiVars >>

\* What an operation of one component leaves alone: the other components.
OutsideTest ==
    UNCHANGED << validateVars, exprVars, playerVars, differenceVars, approxVars, guiVars >>
OutsideValidate ==
    UNCHANGED << testVars, exprVars, playerVars, differenceVars, approxVars, guiVars >>
OutsideExpr == UNCHANGED << self, actual_image, expected_image, known_failure, host,
                            pc, difference_data, is_alpha_different, checks, i,
                            any_check_executed, result, events, validateVars, playerVars,
                            differenceVars, approxVars, guiVars >>
OutsidePlayer ==
    UNCHANGED << testVars, validateVars, exprVars, differenceVars, approxVars, guiVars >>
OutsideDifference ==
    UNCHANGED << testVars, validateVars, exprVars, playerVars, approxVars, guiVars >>
OutsideApprox ==
    UNCHANGED << testVars, validateVars, exprVars, playerVars, differenceVars, guiVars >>
OutsideGui ==
    UNCHANGED << testVars, validateVars, exprVars, playerVars, differenceVars, approxVars >>

\* One call made by test: what was called, for which check (-1: none), on which
\* file ("" if none), and whether a write succeeded.
Ev(e, k, f, ok) == [ev |-> e, i |-> k, file |-> f, ok |-> ok]
Called(e, k) == Ev(e, k, "", TRUE)
Write(f, ok) == Ev("write_image", -1, f, ok)

\* The value test returns; a panic (the unwrap of calculate_max_difference) is
\* kind "Panic".
NoResult == [kind |-> "None", error |-> "", i |-> -1, outliers |-> -1,
             max_outliers |-> -1, max_difference |-> -1]
OkResult == [NoResult EXCEPT !.kind = "Ok"]
Err(e) == [NoResult EXCEPT !.kind = "Err", !.error = e]
Panic == [NoResult EXCEPT !.kind = "Panic", !.error = "called Option::unwrap() on a None value"]
CheckFailed(k, outliers, max_outliers, max_difference) ==
    [kind |-> "Err", error |-> "Number of outliers is bigger than allowed limit", i |-> k,
     outliers |-> outliers, max_outliers |-> max_outliers, max_difference |-> max_difference]
WriteError == Err("write_image failed")

TestIdle ==
    /\ self = ImageComparisonOf(None, None, <<>>, "LastFrame")
    /\ actual_image = Blank(<<0, 1>>)
    /\ expected_image = Blank(<<0, 1>>)
    /\ known_failure = FALSE
    /\ pc = "idle"
    /\ difference_data = <<>>
    /\ is_alpha_different = FALSE
    /\ checks = <<>>
    /\ i = 0
    /\ any_check_executed = FALSE
    /\ result = NoResult
    /\ events = <<>>

\* The inputs test is called on: every comparison on the images of at most one
\* pixel, and the simple comparisons on every image; the expected image is blank,
\* of any size, or the actual image itself.
SmallDims == {d \in Dims : d[1] * d[2] <= 1}
SmallImages == UNION {ImagesOf(d) : d \in SmallDims}
ExpectedFor(a, ds) == {Blank(d) : d \in ds} \cup {a}
TestInputs(cs, as, ds) ==
    \E c \in cs, a \in as :
      \E e \in ExpectedFor(a, ds) :
        /\ self = c
        /\ actual_image = a
        /\ expected_image = e

TestStart ==
    /\ \/ TestInputs(SimpleComparisons \cup ListComparisons, SmallImages, SmallDims)
       \/ TestInputs(SimpleComparisons, Images, Dims)
    /\ known_failure \in BOOLEAN
    /\ host = LinuxHost
    /\ pc = "size_check"
    /\ difference_data = <<>>
    /\ is_alpha_different = FALSE
    /\ checks = <<>>
    /\ i = 0
    /\ any_check_executed = FALSE
    /\ result = NoResult
    /\ events = <<>>

Return(r, evs) ==
    /\ result' = r
    /\ events' = events \o evs
    /\ pc' = "done"

\* Mutant: the actual image is written whether or not the test is a known failure.
save_actual_image_Always(ok) == <<Write("actual", ok)>>

\* save_actual_image: the write it makes (none when known_failure), given whether
\* the write succeeds.
save_actual_image(ok) == IF ~known_failure THEN <<Write("actual", ok)>> ELSE <<>>

\* Mutant: only the widths are compared.
SizeMismatch_WidthOnly(actual, expected) == actual.width # expected.width

\* The condition of the size check.
SizeMismatch(actual, expected) ==
    actual.width # expected.width \/ actual.height # expected.height

\* The size check of test.
SizeCheck ==
    /\ OutsideTest
    /\ pc = "size_check"
    /\ IF SizeMismatch(actual_image, expected_image)
         THEN /\ \E ok \in BOOLEAN :
                   LET saved == save_actual_image(ok)
                   IN  IF saved # <<>> /\ ~ok
                         THEN Return(WriteError, saved)
                         ELSE Return(Err("image is not the right size"), saved)
              /\ UNCHANGED << difference_data, is_alpha_different, checks, i, any_check_executed >>
         ELSE /\ pc' = "difference"
              /\ UNCHANGED << difference_data, is_alpha_different, checks, i,
                              any_check_executed, result, events >>
    /\ UNCHANGED << self, actual_image, expected_image, known_failure, host >>

\* let difference_data = Self::calculate_difference_data(..)
CalculateDifference ==
    /\ OutsideTest
    /\ pc = "difference"
    /\ LET d == calculate_difference_data(actual_image, expected_image)
       IN  /\ difference_data' = d.data
           /\ is_alpha_different' = d.is_alpha_different
    /\ events' = Append(events, Called("calculate_difference_data", -1))
    /\ pc' = "checks"
    /\ UNCHANGED << self, actual_image, expected_image, known_failure, host,
                    checks, i, any_check_executed, result >>

\* let checks = self.checks().map_err(..)?
ResolveChecks ==
    /\ OutsideTest
    /\ pc = "checks"
    /\ LET r == ImageComparison_checks(self)
       IN  IF r.kind = "Err"
             THEN /\ Return(Err(r.error), <<Called("checks", -1)>>)
                  /\ UNCHANGED checks
             ELSE /\ checks' = r.v
                  /\ events' = Append(events, Called("checks", -1))
                  /\ pc' = "loop"
                  /\ UNCHANGED result
    /\ UNCHANGED << self, actual_image, expected_image, known_failure, host,
                    difference_data, is_alpha_different, i, any_check_executed >>

\* Mutant: the alpha difference is never written.
FailureWrites_NoAlpha(okActual, okColor, okAlpha) ==
    LET actual == save_actual_image(okActual)
        color == IF ~known_failure THEN <<Write("difference-color", okColor)>> ELSE <<>>
    IN  IF actual # <<>> /\ ~okActual THEN actual
        ELSE actual \o color

\* The writes of a failed check, in order, ending at the first write that fails:
\* the actual image, the colour difference, the alpha difference.
FailureWrites(okActual, okColor, okAlpha) ==
    LET actual == save_actual_image(okActual)
        color == IF ~known_failure THEN <<Write("difference-color", okColor)>> ELSE <<>>
        alpha == IF is_alpha_different /\ ~known_failure
                   THEN <<Write("difference-alpha", okAlpha)>> ELSE <<>>
    IN  IF actual # <<>> /\ ~okActual THEN actual
        ELSE IF color # <<>> /\ ~okColor THEN actual \o color
        ELSE actual \o color \o alpha

\* Mutant: an expression error gates the check off.
FilterPassed_ErrorSkips(check) ==
    IF check.filter.some /\ evaluate(check.filter.v, host).kind = "Ok"
      THEN evaluate(check.filter.v, host)
    ELSE IF check.filter.some THEN OkBool(FALSE)
    ELSE OkBool(TRUE)

\* Mutant: the filter is not looked at.
FilterPassed_Always(check) == OkBool(TRUE)

\* check.filter.as_ref().map(|f| f.evaluate()).unwrap_or(Ok(true))
FilterPassed(check) ==
    IF check.filter.some THEN evaluate(check.filter.v, host) ELSE OkBool(TRUE)

\* Mutant: a check whose outliers equal the limit fails.
WithinLimit_Strict(outliers, max_outliers) == outliers < max_outliers

\* Mutant: a known failure is let through.
WithinLimit_OrKnownFailure(outliers, max_outliers) ==
    outliers <= max_outliers \/ known_failure

\* `if outliers <= max_outliers`: the check succeeded.
WithinLimit(outliers, max_outliers) == outliers <= max_outliers

\* One iteration of `for (i, check) in checks.iter().enumerate()`.
CheckStep ==
    /\ OutsideTest
    /\ pc = "loop"
    /\ i < Len(checks)
    /\ LET check == checks[i + 1]
           filter_passed == FilterPassed(check)
           evaluated == IF check.filter.some THEN <<Called("evaluate", i)>> ELSE <<>>
           outliers == calculate_outliers(difference_data, check.tolerance)
           max_outliers == check.max_outliers
           max_difference == calculate_max_difference(difference_data)
           computed == evaluated \o <<Called("calculate_outliers", i),
                                      Called("calculate_max_difference", i)>>
       IN  IF filter_passed.kind = "Err"
             THEN /\ Return(Err(filter_passed.error), evaluated)
                  /\ UNCHANGED << i, any_check_executed >>
           ELSE IF ~filter_passed.value
             THEN /\ events' = events \o evaluated \o <<Called("println skipped", i)>>
                  /\ i' = i + 1
                  /\ UNCHANGED << pc, any_check_executed, result >>
           ELSE IF ~max_difference.some
             THEN /\ Return(Panic, computed)
                  /\ UNCHANGED << i, any_check_executed >>
           ELSE IF WithinLimit(outliers, max_outliers)
             THEN /\ any_check_executed' = TRUE
                  /\ events' = events \o computed \o <<Called("println succeeded", i)>>
                  /\ i' = i + 1
                  /\ UNCHANGED << pc, result >>
           ELSE /\ any_check_executed' = TRUE
                /\ \E okActual, okColor, okAlpha \in BOOLEAN :
                     LET writes == FailureWrites(okActual, okColor, okAlpha)
                     IN  IF \E k \in 1..Len(writes) : ~writes[k].ok
                           THEN Return(WriteError, computed \o writes)
                           ELSE Return(CheckFailed(i, outliers, max_outliers, max_difference.v),
                                       computed \o writes)
                /\ UNCHANGED i
    /\ UNCHANGED << self, actual_image, expected_image, known_failure, host,
                    difference_data, is_alpha_different, checks >>

\* Mutant: a comparison none of whose checks ran passes.
AfterLoop_AlwaysOk(executed) == OkResult

\* After the loop: `if !any_check_executed { return Err(..) }  Ok(())`.
AfterLoop(executed) == IF ~executed THEN Err("No checks executed") ELSE OkResult

\* Mutant: the actual image is saved when the loop is over.
LoopEnd_SavesActual ==
    /\ OutsideTest
    /\ pc = "loop"
    /\ i = Len(checks)
    /\ Return(AfterLoop(any_check_executed), save_actual_image(TRUE))
    /\ UNCHANGED << self, actual_image, expected_image, known_failure, host,
                    difference_data, is_alpha_different, checks, i, any_check_executed >>

LoopEnd ==
    /\ OutsideTest
    /\ pc = "loop"
    /\ i = Len(checks)
    /\ Return(AfterLoop(any_check_executed), <<>>)
    /\ UNCHANGED << self, actual_image, expected_image, known_failure, host,
                    difference_data, is_alpha_different, checks, i, any_check_executed >>

TestNext == SizeCheck \/ CalculateDifference \/ ResolveChecks \/ CheckStep \/ LoopEnd

\* ------------------------------------------------- TestOptions::validate
ComparisonNames == 1..MaxComparisons
\* The comparisons of a configuration: simple or mixed, on any trigger.
ConfiguredComparisons ==
    {ImageComparisonOf(t, None, cs, tr) :
        t \in {None, Some(5)},
        cs \in {<<>>, <<[tolerance |-> 5, max_outliers |-> 0, filter |-> None]>>},
        tr \in Triggers}

NoValidateResult == [kind |-> "None", trigger |-> ""]
ValidateOk == [kind |-> "Ok", trigger |-> ""]
\* "Multiple captures are set to trigger {:?}. This likely isn't intended!"
ValidateErr(trigger) == [kind |-> "Err", trigger |-> trigger]

ValidateIdle ==
    /\ image_comparisons = <<>>
    /\ to_visit = {}
    /\ seen_triggers = {}
    /\ validate_result = ValidateOk

ValidateStart ==
    /\ \E n \in 0..MaxComparisons : image_comparisons \in [1..n -> ConfiguredComparisons]
    /\ to_visit = DOMAIN image_comparisons
    /\ seen_triggers = {}
    /\ validate_result = NoValidateResult

\* Mutant: the manual trigger is not exempt.
IsExempt_Never(trigger) == FALSE

\* `comparison.trigger != ImageTrigger::FsCommand` is false: the trigger is exempt.
IsExempt(trigger) == trigger = "FsCommand"

\* Mutant: validate also rejects a comparison that sets a simple field together
\* with a checks list.
ValidateStep_RejectsMixed ==
    /\ OutsideValidate
    /\ validate_result = NoValidateResult
    /\ \E name \in to_visit :
         LET comparison == image_comparisons[name]
             inserted == comparison.trigger \notin seen_triggers
             mixed == /\ comparison.tolerance.some \/ comparison.max_outliers.some
                      /\ comparison.checks # <<>>
         IN  IF mixed \/ (~IsExempt(comparison.trigger) /\ ~inserted)
               THEN /\ validate_result' = ValidateErr(comparison.trigger)
                    /\ UNCHANGED << to_visit, seen_triggers >>
               ELSE /\ seen_triggers' = IF IsExempt(comparison.trigger) THEN seen_triggers
                                        ELSE seen_triggers \cup {comparison.trigger}
                    /\ to_visit' = to_visit \ {name}
                    /\ UNCHANGED validate_result
    /\ UNCHANGED image_comparisons

\* One iteration of `for comparison in self.image_comparisons.values()`; a HashMap
\* yields its values in an arbitrary order.
ValidateStep ==
    /\ OutsideValidate
    /\ validate_result = NoValidateResult
    /\ \E name \in to_visit :
         LET comparison == image_comparisons[name]
             inserted == comparison.trigger \notin seen_triggers
         IN  IF ~IsExempt(comparison.trigger) /\ ~inserted
               THEN /\ validate_result' = ValidateErr(comparison.trigger)
                    /\ UNCHANGED << to_visit, seen_triggers >>
               ELSE /\ seen_triggers' = IF IsExempt(comparison.trigger) THEN seen_triggers
                                        ELSE seen_triggers \cup {comparison.trigger}
                    /\ to_visit' = to_visit \ {name}
                    /\ UNCHANGED validate_result
    /\ UNCHANGED image_comparisons

\* The loop is over (or image_comparisons is empty): Ok(()).
ValidateReturn ==
    /\ OutsideValidate
    /\ validate_result = NoValidateResult
    /\ to_visit = {}
    /\ validate_result' = ValidateOk
    /\ UNCHANGED << image_comparisons, to_visit, seen_triggers >>

ValidateNext == ValidateStep \/ ValidateReturn

\* ------------------------------------------------- TestExpression::evaluate
Atoms ==
    { Atom("os", "linux"), Atom("os", "windows"), Atom("arch", "x86_64"),
      Atom("family", "unix"), Atom("foo", "bar"), Atom("target_os", "linux"),
      Atom("unix", NoVal) }
Fns == {"not", "any", "all"}
\* Expression texts: atoms and functions of atoms ...
FlatTexts == Atoms \cup {Fn(f, as) : f \in Fns, as \in SeqsUpTo(Atoms, MaxArgs)}
\* ... and one more level of nesting: a function of a flat text, alone or next
\* to an atom.
IsNestedText(t) ==
    \E f \in Fns, e \in FlatTexts :
        \/ t = Fn(f, <<e>>)
        \/ \E a \in Atoms : t = Fn(f, <<a, e>>) \/ t = Fn(f, <<e, a>>)

NoExprResult == [kind |-> "None", value |-> FALSE, error |-> "", pred |-> None]

ExprIdle ==
    /\ expression = Atom("os", "linux")
    /\ expr_result = OkBool(TRUE)

ExprStart ==
    /\ \/ expression \in FlatTexts
       \/ IsNestedText(expression)
    /\ expr_result = NoExprResult

Evaluate ==
    /\ OutsideExpr
    /\ expr_result = NoExprResult
    /\ expr_result' = evaluate(expression, host)
    /\ UNCHANGED expression

ExprNext == Evaluate

\* ------------------------------------------------------- PlayerOptions
SampleCounts == {1, 4}
RenderOptions == [optional : BOOLEAN, sample_count : SampleCounts]

PlayerIdle ==
    /\ player_options = [with_renderer |-> None]
    /\ check_renderer = FALSE
    /\ environment = [supported |-> {}, creates |-> FALSE]
    /\ env_calls = <<>>
    /\ can_run_result = Some(TRUE)
    /\ renderer = Some(FALSE)

PlayerStart ==
    /\ player_options \in [with_renderer : Option(RenderOptions)]
    /\ check_renderer \in BOOLEAN
    /\ environment \in [supported : SUBSET RenderOptions, creates : BOOLEAN]
    /\ env_calls = <<>>
    /\ can_run_result = None
    /\ renderer = None

\* environment.is_render_supported(render)
is_render_supported(env, render) == render \in env.supported

\* Mutant: the environment is asked before check_renderer and optional are looked at.
can_run_Eager(options, check, env) ==
    IF options.with_renderer.some
      THEN LET render == options.with_renderer.v
           IN  [calls |-> <<"is_render_supported">>,
                value |-> ~(~is_render_supported(env, render) /\ check /\ ~render.optional)]
      ELSE [calls |-> <<>>, value |-> TRUE]

\* PlayerOptions::can_run: the calls it makes on the environment (&& evaluates its
\* right operand only when the left one is true) and the value it returns.
can_run(options, check, env) ==
    IF options.with_renderer.some
      THEN LET render == options.with_renderer.v
           IN  IF check /\ ~render.optional
                 THEN [calls |-> <<"is_render_supported">>,
                       value |-> is_render_supported(env, render)]
                 ELSE [calls |-> <<>>, value |-> TRUE]
      ELSE [calls |-> <<>>, value |-> TRUE]

CanRun ==
    /\ OutsidePlayer
    /\ can_run_result = None
    /\ LET r == can_run(player_options, check_renderer, environment)
       IN  /\ can_run_result' = Some(r.value)
           /\ env_calls' = env_calls \o r.calls
    /\ UNCHANGED << player_options, check_renderer, environment, renderer >>

\* PlayerOptions::create_renderer: environment.create_renderer is called only when
\* a renderer is configured.
CreateRenderer ==
    /\ OutsidePlayer
    /\ renderer = None
    /\ IF player_options.with_renderer.some
         THEN /\ env_calls' = Append(env_calls, "create_renderer")
              /\ renderer' = Some(environment.creates)
         ELSE /\ renderer' = Some(FALSE)
              /\ UNCHANGED env_calls
    /\ UNCHANGED << player_options, check_renderer, environment, can_run_result >>

PlayerNext == CanRun \/ CreateRenderer

\* ------------------------------------------- the difference functions alone
\* Pixels whose channels are far apart, at the ends of the byte range and next
\* to each other.
DiffPixels == {<<0, 0, 0, 0>>, <<255, 1, 128, 255>>, <<1, 0, 127, 3>>}
DiffImagesOf(d) ==
    {[width |-> d[1], height |-> d[2], data |-> Flatten(ps)] :
        ps \in [1..(d[1] * d[2]) -> DiffPixels]}
\* One-pixel images whose four channels hold the same byte.
Grey(v) == [width |-> 1, height |-> 1, data |-> <<v, v, v, v>>]
Bytes == 0..255
GreyLevels == {0, 100, 255}
\* Tolerances: below, at and above the differences the pixels give.
DiffTolerances == {0, 1, 2, 127, 254, 255}

DifferenceIdle ==
    /\ image_a = Blank(<<0, 1>>)
    /\ image_b = Blank(<<0, 1>>)
    /\ pure_tolerance = 0
    /\ pure_pc = "done"
    /\ diff_ab = [data |-> <<>>, is_alpha_different |-> FALSE]
    /\ diff_ba = [data |-> <<>>, is_alpha_different |-> FALSE]
    /\ outlier_count = 0
    /\ max_diff = None

\* Two images of the same dimensions: of the pixels above in every size, or a grey
\* pixel of any byte against a grey pixel of a few.
DifferenceStart ==
    /\ \/ \E d \in Dims : image_a \in DiffImagesOf(d) /\ image_b \in DiffImagesOf(d)
       \/ \E v \in Bytes, w \in GreyLevels : image_a = Grey(v) /\ image_b = Grey(w)
    /\ pure_tolerance \in DiffTolerances
    /\ pure_pc = "ab"
    /\ diff_ab = [data |-> <<>>, is_alpha_different |-> FALSE]
    /\ diff_ba = [data |-> <<>>, is_alpha_different |-> FALSE]
    /\ outlier_count = 0
    /\ max_diff = None

\* calculate_difference_data(actual = A, expected = B, &mut false)
DifferenceAB ==
    /\ OutsideDifference
    /\ pure_pc = "ab"
    /\ diff_ab' = calculate_difference_data(image_a, image_b)
    /\ pure_pc' = "ba"
    /\ UNCHANGED << image_a, image_b, pure_tolerance, diff_ba, outlier_count, max_diff >>

\* calculate_difference_data(actual = B, expected = A, &mut false)
DifferenceBA ==
    /\ OutsideDifference
    /\ pure_pc = "ba"
    /\ diff_ba' = calculate_difference_data(image_b, image_a)
    /\ pure_pc' = "outliers"
    /\ UNCHANGED << image_a, image_b, pure_tolerance, diff_ab, outlier_count, max_diff >>

\* calculate_outliers(&difference_data, tolerance)
CountOutliers ==
    /\ OutsideDifference
    /\ pure_pc = "outliers"
    /\ outlier_count' = calculate_outliers(diff_ab.data, pure_tolerance)
    /\ pure_pc' = "max"
    /\ UNCHANGED << image_a, image_b, pure_tolerance, diff_ab, diff_ba, max_diff >>

\* calculate_max_difference(&difference_data); None stands for the panic of the
\* unwrap on an empty buffer.
MaxDifference ==
    /\ OutsideDifference
    /\ pure_pc = "max"
    /\ max_diff' = calculate_max_difference(diff_ab.data)
    /\ pure_pc' = "done"
    /\ UNCHANGED << image_a, image_b, pure_tolerance, diff_ab, diff_ba, outlier_count >>

DifferenceNext == DifferenceAB \/ DifferenceBA \/ CountOutliers \/ MaxDifference

\* ------------------------------------------------- Approximations::compare
\* An f64: NaN, an infinity (n is its sign) or a finite value, held as a whole
\* number n of hundredths (n / Scale).
Scale == 100
NaN == [class |-> "nan", n |-> 0]
PosInf == [class |-> "inf", n |-> 1]
NegInf == [class |-> "inf", n |-> -1]
Fin(n) == [class |-> "fin", n |-> n]
\* f64::EPSILON, the default of epsilon and of max_relative: far below the
\* hundredths held here.
F64_EPSILON == Fin(0)

IsNaN(x) == x.class = "nan"
IsInfinite(x) == x.class = "inf"
Sign(n) == IF n < 0 THEN -1 ELSE IF n > 0 THEN 1 ELSE 0
Magnitude(n) == IF n < 0 THEN 0 - n ELSE n

\* The IEEE 754 operations relative_eq uses: ==, <=, >, -, abs, *.  A comparison
\* with NaN is false; inf - inf and 0 * inf are NaN.
FEq(x, y) == ~IsNaN(x) /\ ~IsNaN(y) /\ x = y
FLt(x, y) ==
    /\ ~IsNaN(x) /\ ~IsNaN(y)
    /\ CASE IsInfinite(x) /\ IsInfinite(y) -> x.n < y.n
         [] IsInfinite(x) -> x.n < 0
         [] IsInfinite(y) -> y.n > 0
         [] OTHER -> x.n < y.n
FLe(x, y) == FEq(x, y) \/ FLt(x, y)
FGt(x, y) == FLt(y, x)
FAbs(x) ==
    CASE IsNaN(x) -> NaN
      [] IsInfinite(x) -> PosInf
      [] OTHER -> Fin(Magnitude(x.n))
FSub(x, y) ==
    CASE IsNaN(x) \/ IsNaN(y) -> NaN
      [] IsInfinite(x) /\ IsInfinite(y) -> IF x.n = y.n THEN NaN ELSE x
      [] IsInfinite(x) -> x
      [] IsInfinite(y) -> [class |-> "inf", n |-> 0 - y.n]
      [] OTHER -> Fin(x.n - y.n)
FMul(x, y) ==
    CASE IsNaN(x) \/ IsNaN(y) -> NaN
      [] IsInfinite(x) \/ IsInfinite(y) ->
            IF Sign(x.n) * Sign(y.n) = 0 THEN NaN
            ELSE [class |-> "inf", n |-> Sign(x.n) * Sign(y.n)]
      [] OTHER -> Fin(Sign(x.n) * Sign(y.n) * ((Magnitude(x.n) * Magnitude(y.n)) \div Scale))

\* Mutant: the values are compared by their difference alone.
relative_eq_ByDifference(actual, expected, epsilon, max_relative) ==
    LET abs_diff == FAbs(FSub(actual, expected))
        abs_self == FAbs(actual)
        abs_other == FAbs(expected)
        largest == IF FGt(abs_other, abs_self) THEN abs_other ELSE abs_self
    IN  FLe(abs_diff, epsilon) \/ FLe(abs_diff, FMul(largest, max_relative))

\* relative_eq!(actual, expected, epsilon = .., max_relative = ..)
relative_eq(actual, expected, epsilon, max_relative) ==
    IF FEq(actual, expected) THEN TRUE
    ELSE IF IsInfinite(actual) \/ IsInfinite(expected) THEN FALSE
    ELSE LET abs_diff == FAbs(FSub(actual, expected))
             abs_self == FAbs(actual)
             abs_other == FAbs(expected)
             largest == IF FGt(abs_other, abs_self) THEN abs_other ELSE abs_self
         IN  IF FLe(abs_diff, epsilon) THEN TRUE
             ELSE FLe(abs_diff, FMul(largest, max_relative))

CompareOk == [kind |-> "Ok", error |-> ""]
CompareErr == [kind |-> "Err", error |-> "Approximation failed"]
NoCompareResult == [kind |-> "None", error |-> ""]

\* Approximations::compare: an unset epsilon or max_relative is left to the
\* default of relative_eq!.
compare(approx, actual, expected) ==
    LET epsilon == IF approx.epsilon.some THEN approx.epsilon.v ELSE F64_EPSILON
        max_relative == IF approx.max_relative.some THEN approx.max_relative.v ELSE F64_EPSILON
    IN  IF relative_eq(actual, expected, epsilon, max_relative) THEN CompareOk ELSE CompareErr

\* The numbers compared: -1.5, 0, 1, 1.01, 1.5, the infinities and NaN.
Floats == {NaN, PosInf, NegInf} \cup {Fin(n) : n \in {-150, 0, 100, 101, 150}}
\* The epsilon and max_relative of an Approximations: unset, or 0, 0.01, 0.5, a
\* negative value, infinity or NaN.
Margins == Option({Fin(0), Fin(1), Fin(50), Fin(-1), PosInf, NaN})

ApproxIdle ==
    /\ approximations = [epsilon |-> None, max_relative |-> None]
    /\ approx_actual = Fin(0)
    /\ approx_expected = Fin(0)
    /\ compare_result = CompareOk

ApproxStart ==
    /\ approximations \in [epsilon : Margins, max_relative : Margins]
    /\ approx_actual \in Floats
    /\ approx_expected \in Floats
    /\ compare_result = NoCompareResult

Compare ==
    /\ OutsideApprox
    /\ compare_result = NoCompareResult
    /\ compare_result' = compare(approximations, approx_actual, approx_expected)
    /\ UNCHANGED << approximations, approx_actual, approx_expected >>

ApproxNext == Compare

\* --------------------------------------------------------- GuiController
\* A PhysicalSize<u32>.
PhysicalSize(w, h) == [width |-> w, height |-> h]
WindowSizes == {PhysicalSize(w, h) : w \in 0..2, h \in 0..2}
\* window.inner_size() of the window the controller is created on, whose surface
\* new() configures with it.
InitialSizes == {sz \in WindowSizes : sz.width > 0 /\ sz.height > 0}

\* One entry of gui_log.
Logged(op, sz) == [op |-> op, size |-> sz]
NoSize == PhysicalSize(0, 0)
\* The events and calls the controller was given so far.
Handled ==
    Cardinality({n \in 1..Len(gui_log) :
        gui_log[n].op \in {"Resized event", "other event", "resize call", "surface lost"}})

\* No controller exists.
GuiIdle ==
    /\ gui_size = NoSize
    /\ surface_config = NoSize
    /\ gui_log = <<>>

\* GuiController::new: surface.configure with window.inner_size(), stored as size.
GuiStart ==
    \E sz \in InitialSizes :
        /\ gui_size = sz
        /\ surface_config = sz
        /\ gui_log = << Logged("new", sz), Logged("configure", sz) >>

\* Mutant: a size is ignored only when both its width and its height are 0.
ShouldResize_Either(sz) == sz.width > 0 \/ sz.height > 0

\* `if size.width > 0 && size.height > 0`
ShouldResize(sz) == sz.width > 0 /\ sz.height > 0

\* GuiController::resize, after the entries `before` are logged: self.size is set
\* and reconfigure_surface configures the surface with self.size.
resize(before, sz) ==
    IF ShouldResize(sz)
      THEN /\ gui_size' = sz
           /\ surface_config' = sz
           /\ gui_log' = gui_log \o before \o << Logged("resize", sz), Logged("configure", sz) >>
      ELSE /\ gui_log' = gui_log \o before \o << Logged("resize", sz) >>
           /\ UNCHANGED << gui_size, surface_config >>

\* A call of resize from outside the controller.
Resize ==
    /\ OutsideGui
    /\ gui_log # <<>> /\ Handled < MaxEvents
    /\ \E sz \in WindowSizes : resize(<< Logged("resize call", sz) >>, sz)

\* handle_event(&WindowEvent::Resized(size))
HandleResized ==
    /\ OutsideGui
    /\ gui_log # <<>> /\ Handled < MaxEvents
    /\ \E sz \in WindowSizes : resize(<< Logged("Resized event", sz) >>, sz)

\* handle_event of any other window event: resize is not called.
HandleOtherEvent ==
    /\ OutsideGui
    /\ gui_log # <<>> /\ Handled < MaxEvents
    /\ gui_log' = Append(gui_log, Logged("other event", NoSize))
    /\ UNCHANGED << gui_size, surface_config >>

\* render, when get_current_texture reports the surface lost or outdated:
\* reconfigure_surface configures the surface with self.size.
RenderSurfaceLost ==
    /\ OutsideGui
    /\ gui_log # <<>> /\ Handled < MaxEvents
    /\ surface_config' = gui_size
    /\ gui_log' = gui_log \o << Logged("surface lost", NoSize), Logged("configure", gui_size) >>
    /\ UNCHANGED gui_size

GuiNext == Resize \/ HandleResized \/ HandleOtherEvent \/ RenderSurfaceLost

\* --------------------------------------------------------- specifications
\* ImageComparison::test on one comparison and one pair of images.
OtherIdle == DifferenceIdle /\ ApproxIdle /\ GuiIdle
TestInit == TestStart /\ ValidateIdle /\ ExprIdle /\ PlayerIdle /\ OtherIdle
SpecTest == TestInit /\ [][TestNext]_vars

\* TestOptions::validate on one configuration.
ValidateInit ==
    ValidateStart /\ TestIdle /\ host = LinuxHost /\ ExprIdle /\ PlayerIdle /\ OtherIdle
SpecValidate == ValidateInit /\ [][ValidateNext]_vars

\* TestExpression::evaluate on one expression, on either host.
ExprInit == ExprStart /\ TestIdle /\ host \in Hosts /\ ValidateIdle /\ PlayerIdle /\ OtherIdle
SpecExpr == ExprInit /\ [][ExprNext]_vars

\* PlayerOptions::can_run and create_renderer on one configuration and environment.
PlayerInit ==
    PlayerStart /\ TestIdle /\ host = LinuxHost /\ ValidateIdle /\ ExprIdle /\ OtherIdle
SpecPlayer == PlayerInit /\ [][PlayerNext]_vars

\* calculate_difference_data, calculate_outliers and calculate_max_difference on
\* one pair of images of the same dimensions.
ProgramIdle == TestIdle /\ host = LinuxHost /\ ValidateIdle /\ ExprIdle /\ PlayerIdle
DifferenceInit == DifferenceStart /\ ProgramIdle /\ ApproxIdle /\ GuiIdle
SpecDifference == DifferenceInit /\ [][DifferenceNext]_vars

\* Approximations::compare on one pair of numbers.
ApproxInit == ApproxStart /\ ProgramIdle /\ DifferenceIdle /\ GuiIdle
SpecApprox == ApproxInit /\ [][ApproxNext]_vars

\* A GuiController and the window events and calls it is given.
GuiInit == GuiStart /\ ProgramIdle /\ DifferenceIdle /\ ApproxIdle
SpecGui == GuiInit /\ [][GuiNext]_vars

Init ==
    \/ TestInit \/ ValidateInit \/ ExprInit \/ PlayerInit
    \/ DifferenceInit \/ ApproxInit \/ GuiInit
Next ==
    \/ TestNext \/ ValidateNext \/ ExprNext \/ PlayerNext
    \/ DifferenceNext \/ ApproxNext \/ GuiNext
Spec == Init /\ [][Next]_vars

\* ------------------------------------------- properties of ImageComparison::test
\* |a - b|
AbsDiff(a, b) == IF a >= b THEN a - b ELSE b - a

Done == pc = "done"
Mismatch ==
    actual_image.width # expected_image.width \/ actual_image.height # expected_image.height
Mixed == (self.tolerance.some \/ self.max_outliers.some) /\ self.checks # <<>>

\* The calls test makes once it is past the size check.
PerChannelWork ==
    {"calculate_difference_data", "checks", "evaluate", "calculate_outliers",
     "calculate_max_difference", "println skipped", "println succeeded"}
CheckWork == PerChannelWork \ {"calculate_difference_data", "checks"}
NoEventIn(kinds) == \A k \in 1..Len(events) : events[k].ev \notin kinds
HasEvent(e, k) == \E n \in 1..Len(events) : events[n].ev = e /\ events[n].i = k
LastEvent == events[Len(events)]

SizeError == Err("image is not the right size")
BothError == Err("Both simple and advanced checks are defined")
NoChecksError == Err("No checks executed")
ExpressionErrors == {"Cannot parse expression", "Unknown predicate used in expression"}
OutlierError == "Number of outliers is bigger than allowed limit"

\* What a check's gating expression evaluates to (no filter: Ok(true)).
Gate(check) == IF check.filter.some THEN evaluate(check.filter.v, host) ELSE OkBool(TRUE)

\* C2 as stated: on a size mismatch test stays at the size check, does no
\* per-channel work, resolves no checks, and returns the 'not the right size' error.
C2_Original ==
    Mismatch =>
        /\ pc \in {"size_check", "done"}
        /\ NoEventIn(PerChannelWork)
        /\ difference_data = <<>> /\ checks = <<>>
        /\ Done => result = SizeError

\* C2 (amended): on a size mismatch test fails at the size check, before any
\* difference data, check resolution, gating expression or check, whatever the
\* configured checks; the error is 'not the right size', or the write error when
\* writing the actual image (test not a known failure) fails.
C2_SizeMismatchFailsFirst ==
    Mismatch =>
        /\ pc \in {"size_check", "done"}
        /\ NoEventIn(PerChannelWork)
        /\ difference_data = <<>> /\ checks = <<>>
        /\ Done => \/ /\ result = SizeError
                       /\ events = (IF known_failure THEN <<>> ELSE <<Write("actual", TRUE)>>)
                    \/ /\ result = WriteError
                       /\ ~known_failure
                       /\ events = <<Write("actual", FALSE)>>

C2_Witness ==
    /\ Done /\ Mismatch /\ Mixed
    /\ actual_image.width = expected_image.width
    /\ \E k \in 1..Len(self.checks) : Gate(self.checks[k]).kind = "Err"
    /\ result = SizeError

\* C3 as stated: a mixed simple/advanced comparison always fails with the
\* 'Both simple and advanced checks are defined' error.
C3_Original == Mixed /\ Done => result = BothError

\* C3 (amended): a mixed simple/advanced comparison always fails when tested, with
\* the 'Both simple and advanced' error whenever the images have the same
\* dimensions (the size check fails first otherwise), and no check of either kind
\* is ever evaluated.
C3_MixedAlwaysFails ==
    Mixed =>
        /\ NoEventIn(CheckWork)
        /\ checks = <<>>
        /\ Done => /\ result.kind = "Err"
                   /\ ~Mismatch => result = BothError

C3_Witness ==
    /\ Mixed /\ Done /\ ~Mismatch /\ result = BothError
    /\ actual_image # expected_image

\* Every check of the comparison's list has a filter that evaluates to false.
AllGatedOff ==
    /\ self.checks # <<>>
    /\ \A k \in 1..Len(self.checks) : Gate(self.checks[k]) = OkBool(FALSE)

\* C4 as stated: if every check is gated off, test fails with 'No checks executed'.
C4_Original == AllGatedOff /\ Done => result = NoChecksError

\* C4 (amended): if every check is gated off, test never returns success; it fails
\* with 'No checks executed' whenever the images have the same dimensions and the
\* comparison does not also set tolerance or max_outliers.
C4_AllGatedOffFails ==
    AllGatedOff /\ Done =>
        /\ result.kind = "Err"
        /\ (~Mismatch /\ ~Mixed) => result = NoChecksError /\ NoEventIn({"calculate_outliers"})

C4_Witness ==
    /\ AllGatedOff /\ Done /\ result = NoChecksError
    /\ Len(self.checks) >= 2
    /\ is_alpha_different

AllZero(d) == \A k \in 1..Len(d) : d[k] = 0
Tolerances == 0..255
\* The difference buffer is computed once, before the checks are resolved
\* (pc = "checks" is the state right after), and never changes afterwards.
DifferenceComputed == pc \in {"checks", "loop", "done"} /\ ~Mismatch
NoGateFails == \A k \in 1..Len(self.checks) : Gate(self.checks[k]).kind = "Ok"
SomeCheckRuns ==
    self.checks = <<>> \/ \E k \in 1..Len(self.checks) : Gate(self.checks[k]) = OkBool(TRUE)

\* C5 as stated: an image compared with itself gives an all-zero difference buffer,
\* no outliers for any tolerance, and the comparison passes.
C5_Original ==
    actual_image = expected_image =>
        /\ DifferenceComputed =>
              /\ Len(difference_data) = Len(actual_image.data)
              /\ AllZero(difference_data)
              /\ pc = "checks" =>
                    \A t \in Tolerances : calculate_outliers(difference_data, t) = 0
        /\ Done => result = OkResult

\* C5 (amended): an image compared with itself gives an all-zero difference buffer
\* and no outliers for any tolerance, so no check fails whatever its tolerance and
\* max_outliers; a non-empty image passes whenever the comparison does not mix
\* simple and advanced checks, no gating expression fails and at least one check
\* is not gated off (always so in simple mode).
C5_SelfComparison ==
    actual_image = expected_image =>
        /\ DifferenceComputed =>
              /\ Len(difference_data) = Len(actual_image.data)
              /\ AllZero(difference_data)
              /\ ~is_alpha_different
              /\ pc = "checks" =>
                    \A t \in Tolerances : calculate_outliers(difference_data, t) = 0
        /\ Done =>
              /\ result.error # OutlierError
              /\ NoEventIn({"write_image"})
              /\ (actual_image.data # <<>> /\ ~Mixed /\ NoGateFails /\ SomeCheckRuns)
                    => result = OkResult

C5_Witness ==
    /\ actual_image = expected_image /\ Done /\ result = OkResult
    /\ actual_image.data # Blank(<<actual_image.width, actual_image.height>>).data
    /\ NumChunks(actual_image.data) >= 2
    /\ self.tolerance = None /\ self.max_outliers = None

\* Check k (from 0) of the resolved list is the first one that runs and has more
\* outliers than its limit.
Exceeds(check) ==
    /\ Gate(check) = OkBool(TRUE)
    /\ calculate_outliers(difference_data, check.tolerance) > check.max_outliers
FirstFailing(k) ==
    /\ k < Len(checks)
    /\ Exceeds(checks[k + 1])
    /\ \A j \in 1..k : Gate(checks[j]).kind = "Ok" /\ ~Exceeds(checks[j])
FailureOf(k) ==
    CheckFailed(k, calculate_outliers(difference_data, checks[k + 1].tolerance),
                checks[k + 1].max_outliers, calculate_max_difference(difference_data).v)
NothingAfter(k) == \A n \in 1..Len(events) : events[n].i <= k

\* C6 as stated: the first executed check over its limit ends test with that
\* check's failure, and no later check is evaluated.
C6_Original ==
    \A k \in 0..(Len(checks) - 1) :
        Done /\ FirstFailing(k) => result = FailureOf(k) /\ NothingAfter(k)

\* C6 (amended): the first executed check over its limit ends test, with that
\* check's failure (index, outliers, limit, max difference) or, when writing one
\* of its diagnostic images fails, with that write's error; no later check is
\* evaluated, so no later gating expression is evaluated either.
C6_FirstFailureShortCircuits ==
    \A k \in 0..(Len(checks) - 1) :
        FirstFailing(k) =>
            /\ NothingAfter(k)
            /\ i <= k
            /\ Done =>
                  /\ HasEvent("calculate_outliers", k)
                  /\ \/ result = FailureOf(k) /\ (~known_failure => LastEvent.ok)
                     \/ /\ result = WriteError /\ ~known_failure
                        /\ LastEvent.ev = "write_image" /\ ~LastEvent.ok

C6_Witness ==
    /\ Done /\ FirstFailing(0) /\ Len(checks) >= 2
    /\ result = FailureOf(0)
    /\ Gate(checks[2]).kind = "Err"

\* C7: a known-failure test writes no image, on any path.
C7_KnownFailureWritesNothing == known_failure => NoEventIn({"write_image"})

C7_Witness ==
    /\ known_failure /\ Done /\ result.error = OutlierError
    /\ is_alpha_different

\* C9 as stated: an expression error of one check leaves the other checks of the
\* comparison to be evaluated.
C9_Original ==
    \A k \in 0..(Len(checks) - 1) :
        (Done /\ HasEvent("evaluate", k) /\ Gate(checks[k + 1]).kind = "Err") =>
            \A j \in 0..(Len(checks) - 1) :
                HasEvent("evaluate", j) \/ HasEvent("calculate_outliers", j)

\* C9 (amended): an expression error of a check's gating expression is fatal to the
\* whole comparison: test returns it at once as its error, the check is neither
\* skipped nor passed, the checks before it were evaluated and the checks after
\* it are not.
C9_ExpressionErrorEndsTest ==
    \A k \in 0..(Len(checks) - 1) :
        (HasEvent("evaluate", k) /\ Gate(checks[k + 1]).kind = "Err") =>
            /\ Done
            /\ result = Err(Gate(checks[k + 1]).error)
            /\ LastEvent = Called("evaluate", k)
            /\ ~HasEvent("println skipped", k) /\ ~HasEvent("println succeeded", k)
            /\ ~HasEvent("calculate_outliers", k)
            /\ NothingAfter(k)
            /\ \A j \in 0..(k - 1) :
                  HasEvent("evaluate", j) \/ HasEvent("calculate_outliers", j)

C9_Witness ==
    /\ Done /\ Len(checks) >= 2
    /\ result.error \in ExpressionErrors
    /\ HasEvent("println succeeded", 0)
    /\ HasEvent("evaluate", 1)

\* Both images have no pixels.
ZeroSize == actual_image.data = <<>> /\ expected_image.data = <<>>
CallsOf(e) == Cardinality({n \in 1..Len(events) : events[n].ev = e})

\* C13: comparing two images that contain no pixels never returns success, whatever
\* the configured checks: test returns an error, or panics in
\* calculate_max_difference as soon as a check runs on the empty buffer.
C13_ZeroSizeNeverPasses ==
    ZeroSize =>
        /\ ~any_check_executed
        /\ ~HasEvent("println succeeded", 0) /\ ~HasEvent("println succeeded", 1)
        /\ Done =>
              /\ result.kind \in {"Err", "Panic"}
              /\ result.error # OutlierError
              /\ CallsOf("calculate_max_difference") > 0 <=> result = Panic

C13_Witness ==
    /\ ZeroSize /\ ~Mismatch /\ Done
    /\ result = Panic
    /\ HasEvent("println skipped", 0)

\* The write_image calls made, in order.
WritesMade == SelectSeq(events, LAMBDA e : e.ev = "write_image")
Written(f) ==
    \E n \in 1..Len(events) :
        events[n].ev = "write_image" /\ events[n].file = f /\ events[n].ok
\* A check ran and found more outliers than its limit.
ACheckFailed == Done /\ \E k \in 0..(Len(checks) - 1) : FirstFailing(k)
\* Some pixel's alpha differs between the actual and the expected image.
ImagesAlphaDiffers ==
    /\ ~Mismatch
    /\ \E k \in 1..NumChunks(actual_image.data) :
          actual_image.data[4 * k] # expected_image.data[4 * k]
\* The files a failed check is to write, in order.
DiagnosticFiles ==
    <<"actual", "difference-color">>
        \o (IF ImagesAlphaDiffers THEN <<"difference-alpha">> ELSE <<>>)

\* C14 as stated: on a failed check of a test that is not a known failure the
\* actual image and the colour difference are written, and the alpha difference is
\* written exactly when some pixel's alpha differs.
C14_Original ==
    (ACheckFailed /\ ~known_failure) =>
        /\ Written("actual")
        /\ Written("difference-color")
        /\ Written("difference-alpha") <=> ImagesAlphaDiffers

\* C14 (amended): on a failed check of a test that is not a known failure, test
\* writes the actual image, then the colour difference, then (exactly when some
\* pixel's alpha differs) the alpha difference, whatever the check's tolerance and
\* the channels that gave the outliers; a write that fails ends test with that
\* write's error and the images after it are not written.
C14_DiagnosticImages ==
    (ACheckFailed /\ ~known_failure) =>
        LET w == WritesMade
        IN  /\ Len(w) \in 1..Len(DiagnosticFiles)
            /\ \A n \in 1..Len(w) : w[n].file = DiagnosticFiles[n]
            /\ \A n \in 1..(Len(w) - 1) : w[n].ok
            /\ IF w[Len(w)].ok
                 THEN Len(w) = Len(DiagnosticFiles) /\ result.error = OutlierError
                 ELSE result = WriteError

C14_Witness ==
    /\ ACheckFailed /\ ~known_failure
    /\ result.error = OutlierError
    /\ self.tolerance = Some(5)
    /\ Written("difference-alpha")
    /\ result.outliers = 1

\* The configured value of a simple field, 0 when unset.
Configured(o) == IF o = None THEN 0 ELSE o.v
\* The channel samples whose absolute difference is over t.
DifferingSamples(t) ==
    {k \in 1..Len(actual_image.data) :
        AbsDiff(actual_image.data[k], expected_image.data[k]) > t}

\* C15: in simple mode (empty checks list) test runs exactly one check, ungated,
\* with the configured tolerance and max_outliers (0 when unset); for non-empty
\* images of the same dimensions it passes exactly when the number of channel
\* samples whose absolute difference is strictly over the tolerance is at most
\* max_outliers.
C15_SimpleMode ==
    self.checks = <<>> =>
        /\ NoEventIn({"evaluate", "println skipped"})
        /\ (pc \in {"loop", "done"} /\ ~Mismatch) =>
              checks = << [tolerance |-> Configured(self.tolerance),
                           max_outliers |-> Configured(self.max_outliers),
                           filter |-> None] >>
        /\ (Done /\ ~Mismatch /\ actual_image.data # <<>>) =>
              /\ CallsOf("calculate_outliers") = 1
              /\ result = OkResult <=>
                    Cardinality(DifferingSamples(Configured(self.tolerance)))
                        <= Configured(self.max_outliers)
              /\ result.kind \in {"Ok", "Err"}

C15_Witness ==
    /\ self.checks = <<>> /\ Done /\ ~Mismatch
    /\ self.tolerance = Some(5) /\ self.max_outliers = None
    /\ NumChunks(actual_image.data) = 2
    /\ Cardinality(DifferingSamples(0)) = 1
    /\ Cardinality(DifferingSamples(5)) = 1
    /\ result.error = OutlierError /\ result.outliers = 1 /\ result.max_difference = 10

\* Advanced mode: a checks list and no simple field.
AdvancedMode == self.checks # <<>> /\ ~Mixed
Runs(check) == Gate(check) = OkBool(TRUE)
GatedOff(check) == Gate(check) = OkBool(FALSE)
WithinOwnLimit(check) ==
    Cardinality(DifferingSamples(check.tolerance)) <= check.max_outliers
\* The calls made for the checks (i >= 0) come in the order of the list.
InDeclaredOrder ==
    \A m, n \in 1..Len(events) :
        (m < n /\ events[m].i >= 0 /\ events[n].i >= 0) => events[m].i <= events[n].i

\* C18: in advanced mode, on non-empty images of the same dimensions and with
\* gating expressions that all evaluate without error, the checks are evaluated in
\* declared order, a check that is gated off is never computed, and test succeeds
\* exactly when at least one check is not gated off and every check that is not
\* gated off has at most max_outliers outliers.
C18_AdvancedMode ==
    (AdvancedMode /\ ~Mismatch /\ actual_image.data # <<>> /\ NoGateFails) =>
        /\ InDeclaredOrder
        /\ \A k \in 1..Len(self.checks) :
              GatedOff(self.checks[k]) =>
                  /\ ~HasEvent("calculate_outliers", k - 1)
                  /\ ~HasEvent("calculate_max_difference", k - 1)
                  /\ ~HasEvent("println succeeded", k - 1)
        /\ Done =>
              /\ result.kind \in {"Ok", "Err"}
              /\ result = OkResult <=>
                    /\ \E k \in 1..Len(self.checks) : Runs(self.checks[k])
                    /\ \A k \in 1..Len(self.checks) :
                          Runs(self.checks[k]) => WithinOwnLimit(self.checks[k])

C18_Witness ==
    /\ AdvancedMode /\ Done /\ result = OkResult
    /\ Len(self.checks) = 2
    /\ GatedOff(self.checks[1]) /\ ~WithinOwnLimit(self.checks[1])
    /\ Runs(self.checks[2])
    /\ actual_image # expected_image

\* C19: test writes files only on its failure paths: none when it succeeds, none
\* when it fails with 'No checks executed', with the mixed simple/advanced error or
\* with an expression error (or panics); on a size mismatch only the actual image,
\* on a failed check at most the three diagnostic images, and in both cases only
\* right before test returns.
C19_WritesConfined ==
    LET w == WritesMade
    IN  /\ ~Done => w = <<>>
        /\ Done =>
              /\ result.kind \in {"Ok", "Panic"} => w = <<>>
              /\ result \in {NoChecksError, BothError} => w = <<>>
              /\ result.error \in ExpressionErrors => w = <<>>
              /\ w # <<>> =>
                    /\ ~known_failure
                    /\ \/ Mismatch /\ Len(w) = 1 /\ w[1].file = "actual"
                       \/ /\ ACheckFailed
                          /\ Len(w) <= 3
                          /\ \A n \in 1..Len(w) :
                                w[n].file = <<"actual", "difference-color", "difference-alpha">>[n]

C19_Witness ==
    /\ Done /\ Len(WritesMade) = 3
    /\ result.error = OutlierError
    /\ Len(checks) = 2 /\ result.i = 1

\* The largest absolute difference of two samples of the images.
MaxSample ==
    CHOOSE m \in 0..255 :
        /\ \E k \in 1..Len(actual_image.data) :
              AbsDiff(actual_image.data[k], expected_image.data[k]) = m
        /\ \A k \in 1..Len(actual_image.data) :
              AbsDiff(actual_image.data[k], expected_image.data[k]) <= m

\* The outcome the comparison's configuration and the two images call for, from
\* check k of the list cs on; known_failure plays no part in it.
RECURSIVE VerdictFrom(_, _, _)
VerdictFrom(cs, k, executed) ==
    IF k > Len(cs) THEN (IF executed THEN OkResult ELSE NoChecksError)
    ELSE IF Gate(cs[k]).kind = "Err" THEN Err(Gate(cs[k]).error)
    ELSE IF GatedOff(cs[k]) THEN VerdictFrom(cs, k + 1, executed)
    ELSE IF actual_image.data = <<>> THEN Panic
    ELSE IF WithinOwnLimit(cs[k]) THEN VerdictFrom(cs, k + 1, TRUE)
    ELSE CheckFailed(k - 1, Cardinality(DifferingSamples(cs[k].tolerance)),
                     cs[k].max_outliers, MaxSample)
Verdict ==
    IF Mismatch THEN SizeError
    ELSE IF Mixed THEN BothError
    ELSE IF self.checks = <<>>
      THEN VerdictFrom(<< [tolerance |-> Configured(self.tolerance),
                          max_outliers |-> Configured(self.max_outliers),
                          filter |-> None] >>, 1, FALSE)
    ELSE VerdictFrom(self.checks, 1, FALSE)
AllWritesSucceed == \A n \in 1..Len(events) : events[n].ok

\* C20: provided its image writes succeed, the outcome of test (success, or the
\* kind of error with its check index and numbers) is the one the configuration
\* and the two images call for, the same with known_failure true as with
\* known_failure false; the flag only decides whether files are written.
C20_KnownFailureKeepsVerdict ==
    (Done /\ AllWritesSucceed) =>
        /\ result = Verdict
        /\ known_failure => WritesMade = <<>>
        /\ (~known_failure /\ (Mismatch \/ ACheckFailed)) => WritesMade # <<>>

C20_Witness ==
    /\ Done /\ known_failure
    /\ result = Verdict
    /\ result.error = OutlierError /\ result.i = 1
    /\ ImagesAlphaDiffers

\* ---------------------------------------- properties of TestOptions::validate
\* Two comparisons share a trigger other than FsCommand.
Collision ==
    \E a, b \in DOMAIN image_comparisons :
        /\ a # b
        /\ image_comparisons[a].trigger = image_comparisons[b].trigger
        /\ image_comparisons[a].trigger # "FsCommand"
UsesOf(trigger) == {a \in DOMAIN image_comparisons : image_comparisons[a].trigger = trigger}

\* C1: validate fails exactly when two comparisons share a trigger other than
\* FsCommand (and names such a trigger), whatever the number of comparisons on
\* FsCommand and whatever the order the map yields its values in.
C1_ValidateRejectsSharedTrigger ==
    validate_result # NoValidateResult =>
        /\ validate_result.kind = "Err" <=> Collision
        /\ validate_result.kind = "Ok" <=> ~Collision
        /\ validate_result.kind = "Err" =>
              /\ validate_result.trigger # "FsCommand"
              /\ Cardinality(UsesOf(validate_result.trigger)) >= 2

C1_Witness ==
    /\ validate_result = ValidateOk
    /\ Cardinality(UsesOf("FsCommand")) >= 2
    /\ Cardinality(UsesOf("LastFrame")) = 1

\* The comparisons of the configuration that set tolerance or max_outliers
\* together with a non-empty checks list.
MixedNames ==
    {n \in DOMAIN image_comparisons :
        /\ image_comparisons[n].tolerance # None \/ image_comparisons[n].max_outliers # None
        /\ Len(image_comparisons[n].checks) > 0}

\* C16: validate accepts a configuration with a mixed simple/advanced comparison
\* (it fails only on a shared trigger, never because of the mixing); the 'Both
\* simple and advanced checks are defined' error is the one checks() gives when
\* that comparison is tested.
C16_MixedAcceptedAtLoad ==
    /\ validate_result.kind = "Err" => Collision
    /\ (validate_result # NoValidateResult /\ MixedNames # {} /\ ~Collision) =>
          validate_result = ValidateOk
    /\ \A n \in MixedNames :
          /\ ImageComparison_checks(image_comparisons[n]).kind = "Err"
          /\ ImageComparison_checks(image_comparisons[n]).error
                = "Both simple and advanced checks are defined"

C16_Witness ==
    /\ validate_result = ValidateOk
    /\ Cardinality(MixedNames) >= 2
    /\ Cardinality(DOMAIN image_comparisons) = 3

\* -------------------------------------- properties of TestExpression::evaluate
RecognisedKeys == {"os", "arch", "family"}
HostValue(key) ==
    CASE key = "os" -> host.os
      [] key = "arch" -> host.arch
      [] key = "family" -> host.family

RECURSIVE AtomsOf(_)
AtomsOf(t) ==
    IF t.node = "atom" THEN {t} ELSE UNION {AtomsOf(t.args[k]) : k \in 1..Len(t.args)}
\* The atom is a key/value predicate on os, arch or family.
Recognised(a) == a.val # NoVal /\ a.key \in RecognisedKeys
UsesOnlyRecognised(t) == \A a \in AtomsOf(t) : Recognised(a)

\* The truth value of an expression of recognised predicates on the host.
RECURSIVE Holds(_)
Holds(t) ==
    CASE t.node = "atom" -> t.val = HostValue(t.key)
      [] t.node = "not" -> ~Holds(t.args[1])
      [] t.node = "any" -> \E k \in 1..Len(t.args) : Holds(t.args[k])
      [] t.node = "all" -> \A k \in 1..Len(t.args) : Holds(t.args[k])

\* C8: a well-formed expression that uses a predicate other than a key/value one on
\* os, arch or family evaluates to the 'Unknown predicate' error, wherever the
\* predicate sits and whatever the others evaluate to; one that uses only those
\* evaluates to its truth value on the host (false for a value that is not the
\* host's), never to that error.
C8_UnknownPredicateIsAnError ==
    expr_result # NoExprResult =>
        /\ (ParseOk(expression) /\ ~UsesOnlyRecognised(expression)) =>
              /\ expr_result.kind = "Err"
              /\ expr_result.error = "Unknown predicate used in expression"
              /\ expr_result.pred.some
              /\ \E a \in AtomsOf(expression) :
                    ~Recognised(a) /\ expr_result.pred.v.key = a.key
        /\ (ParseOk(expression) /\ UsesOnlyRecognised(expression)) =>
              expr_result = OkBool(Holds(expression))
        /\ UsesOnlyRecognised(expression) =>
              expr_result.error # "Unknown predicate used in expression"
        /\ (expression.node = "atom" /\ Recognised(expression)
               /\ expression.val # HostValue(expression.key)) => expr_result = OkBool(FALSE)

C8_Witness ==
    /\ expression = Fn("any", <<Atom("os", "linux"), Fn("not", <<Atom("foo", "bar")>>)>>)
    /\ host = LinuxHost
    /\ expr_result.kind = "Err"
    /\ expr_result.error = "Unknown predicate used in expression"

\* ------------------------------------- properties of PlayerOptions::can_run
\* The renderer has to be checked: one is configured, checking is asked for and
\* the renderer is not optional.
MustCheckRenderer ==
    /\ player_options.with_renderer.some
    /\ check_renderer
    /\ ~player_options.with_renderer.v.optional
SupportCalls == Cardinality({k \in 1..Len(env_calls) : env_calls[k] = "is_render_supported"})

\* C10: can_run returns false exactly when the renderer has to be checked and the
\* environment reports it unsupported; is_render_supported is never called when
\* the renderer does not have to be checked.
C10_CanRun ==
    /\ can_run_result # None =>
          can_run_result = Some(~(MustCheckRenderer
                                   /\ player_options.with_renderer.v \notin environment.supported))
    /\ ~MustCheckRenderer => SupportCalls = 0
    /\ SupportCalls <= 1

C10_Witness ==
    /\ can_run_result = Some(FALSE)
    /\ SupportCalls = 1
    /\ environment.supported # {}

\* ------------------------------------ properties of the difference functions
BothDifferences == pure_pc \in {"outliers", "max", "done"}
AlphaDiffers ==
    \E k \in 1..NumChunks(image_a.data) : image_a.data[4 * k] # image_b.data[4 * k]

\* C11: for two images of the same dimensions, the difference buffer and the
\* alpha-differs flag computed for (actual = A, expected = B) equal those computed
\* for (actual = B, expected = A); the buffer has one entry per channel sample, each
\* the absolute difference |a - b| of the two samples, in 0..255, and the flag is
\* set exactly when some pixel's alpha differs.
C11_DifferenceIsSymmetric ==
    BothDifferences =>
        /\ diff_ab = diff_ba
        /\ Len(diff_ab.data) = Len(image_a.data)
        /\ \A k \in 1..Len(diff_ab.data) :
              /\ diff_ab.data[k] = AbsDiff(image_a.data[k], image_b.data[k])
              /\ diff_ab.data[k] \in 0..255
        /\ diff_ab.is_alpha_different <=> AlphaDiffers

C11_Witness ==
    /\ pure_pc = "done"
    /\ diff_ab.is_alpha_different
    /\ \E k, j \in 1..Len(diff_ab.data) :
          /\ image_a.data[k] = 0 /\ image_b.data[k] = 255 /\ diff_ab.data[k] = 255
          /\ image_a.data[j] > image_b.data[j] /\ diff_ba.data[j] = 128

OutlierSamples == {k \in 1..Len(diff_ab.data) : diff_ab.data[k] > pure_tolerance}

\* C12: calculate_outliers returns the number of channel samples of the buffer,
\* alpha included, that are strictly greater than the tolerance (a sample equal to
\* the tolerance is not counted), at most 4 per pixel; it is 0 exactly when no
\* sample exceeds the tolerance, that is, when the maximum difference of the
\* buffer (calculate_max_difference, of a buffer that has one) is at most the
\* tolerance.
C12_OutliersAreStrictlyGreater ==
    pure_pc \in {"max", "done"} =>
        /\ outlier_count = Cardinality(OutlierSamples)
        /\ outlier_count \in 0..(4 * NumChunks(diff_ab.data))
        /\ outlier_count = 0 <=> \A k \in 1..Len(diff_ab.data) : diff_ab.data[k] <= pure_tolerance
        /\ (pure_pc = "done" /\ max_diff.some) =>
              (outlier_count = 0 <=> max_diff.v <= pure_tolerance)

C12_Witness ==
    /\ pure_pc = "done"
    /\ pure_tolerance > 0
    /\ \E k \in 1..NumChunks(diff_ab.data) :
          /\ diff_ab.data[4 * k] > pure_tolerance
          /\ diff_ab.data[4 * k - 2] = pure_tolerance
    /\ outlier_count = 3
    /\ max_diff = Some(255)

\* ------------------------------------ properties of Approximations::compare
\* C17: compare(x, x) succeeds for every x that is not NaN, with epsilon and
\* max_relative each set (to any value) or unset; a comparison with NaN on either
\* side never succeeds.
C17_CompareSameValue ==
    compare_result # NoCompareResult =>
        /\ (approx_actual = approx_expected /\ approx_actual # NaN) =>
              compare_result = CompareOk
        /\ (approx_actual = NaN \/ approx_expected = NaN) => compare_result = CompareErr

C17_Witness ==
    /\ compare_result = CompareOk
    /\ approx_actual = PosInf /\ approx_expected = PosInf
    /\ approximations.epsilon = None
    /\ approximations.max_relative = Some(Fin(1))

\* ------------------------------------------- properties of GuiController
BothPositive(sz) == sz.width > 0 /\ sz.height > 0
\* The size of the last of the first n entries of the log that is a resize to a
\* size with both dimensions positive; the initial size if there is none.
RECURSIVE LastPositiveSize(_)
LastPositiveSize(n) ==
    IF n <= 1 THEN gui_log[1].size
    ELSE IF gui_log[n].op = "resize" /\ BothPositive(gui_log[n].size) THEN gui_log[n].size
    ELSE LastPositiveSize(n - 1)

\* C21: resize, called directly or by handle_event on a Resized event, ignores a
\* size whose width or height is 0 (self.size is kept and the surface is not
\* configured); for a size with both dimensions positive it stores the size and
\* configures the surface with exactly that width and height; so the stored size
\* is always the last size given with both dimensions positive, or the initial
\* size, and it is the size the surface is configured with.
C21_ResizeIgnoresZeroSizes ==
    gui_log # <<>> =>
        /\ gui_size = LastPositiveSize(Len(gui_log))
        /\ surface_config = gui_size
        /\ \A n \in 1..Len(gui_log) :
              /\ gui_log[n].op \in {"Resized event", "resize call"} =>
                    n < Len(gui_log) /\ gui_log[n + 1] = Logged("resize", gui_log[n].size)
              /\ gui_log[n].op = "other event" =>
                    n = Len(gui_log) \/ gui_log[n + 1].op \notin {"resize", "configure"}
              /\ gui_log[n].op = "resize" =>
                    IF BothPositive(gui_log[n].size)
                      THEN n < Len(gui_log) /\ gui_log[n + 1] = Logged("configure", gui_log[n].size)
                      ELSE n = Len(gui_log) \/ gui_log[n + 1].op # "configure"

C21_Witness ==
    /\ Len(gui_log) >= 7
    /\ gui_log[3].op = "Resized event"
    /\ BothPositive(gui_log[3].size) /\ gui_log[3].size # gui_log[1].size
    /\ gui_log[Len(gui_log)].op = "resize"
    /\ gui_log[Len(gui_log)].size.width > 0 /\ gui_log[Len(gui_log)].size.height = 0
    /\ gui_size = gui_log[3].size
    /\ surface_config = gui_log[3].size

====
